---- MODULE Spec2Model ----
(***************************************************************************)
(* Model of miriperformance_tools.py: the archive loader load_data and the *)
(* five plot routines make_imager_plots, make_lrs_plots, make_mrs_plots,   *)
(* sens_plot and bright_plot, together with the process-wide state they    *)
(* act on: the data_files/ tree, the plots/ tree and pyplot's open figures.*)
(*                                                                         *)
(* Strings are sequences of tokens (a token is a run of characters that    *)
(* the program never splits), so that strip, split('.'), format and the    *)
(* glob match are computed.  Numbers are integers; a plotted value is      *)
(* kept in units of 1/Scale.  Python's 0-based index i is i+1 here.        *)
(***************************************************************************)
EXTENDS Integers, Sequences, FiniteSets, TLC

VARIABLES dataDirs, mrsLen, plotFiles, figs, calls, last

vars == <<dataDirs, mrsLen, plotFiles, figs, calls, last>>

-----------------------------------------------------------------------------
(* Bounds of the model *)

MaxCalls == 2
MaxMrsLen == 13

-----------------------------------------------------------------------------
(* String helpers: str.strip, str.split('.')[0], str.format, fnmatch *)

RECURSIVE LStrip(_)
LStrip(s) == IF s # <<>> /\ Head(s) = " " THEN LStrip(Tail(s)) ELSE s

RECURSIVE RStrip(_)
RStrip(s) ==
    IF s # <<>> /\ s[Len(s)] = " " THEN RStrip(SubSeq(s, 1, Len(s) - 1)) ELSE s

Strip(s) == RStrip(LStrip(s))

\* the text before the last '.' (os.path.splitext, not split('.')[0])
StemLast(s) ==
    LET dots == {i \in DOMAIN s : s[i] = "."}
    IN  IF dots = {} THEN s
        ELSE SubSeq(s, 1, (CHOOSE i \in dots : \A j \in dots : j <= i) - 1)

\* outfile.split('.')[0]: the text before the first '.'
RECURSIVE Stem(_)
Stem(s) ==
    IF s = <<>> \/ Head(s) = "." THEN <<>> ELSE <<Head(s)>> \o Stem(Tail(s))

\* '{}'.format(version): None is rendered as the text None
Format(version) == IF version.none THEN <<"None">> ELSE version.str

IsPrefix(p, s) == Len(p) <= Len(s) /\ SubSeq(s, 1, Len(p)) = p

IsSuffix(p, s) == Len(p) <= Len(s) /\ SubSeq(s, Len(s) - Len(p) + 1, Len(s)) = p

\* position of the wildcard in a pattern, 0 when it has none
StarAt(pat) ==
    IF \E i \in 1..Len(pat) : pat[i] = "*"
    THEN CHOOSE i \in 1..Len(pat) : pat[i] = "*"
    ELSE 0

\* fnmatch of a file name against a pattern with at most one '*'
Match(pat, name) ==
    LET k == StarAt(pat)
    IN  IF k = 0
        THEN name = pat
        ELSE LET pre == SubSeq(pat, 1, k - 1)
                 suf == SubSeq(pat, k + 1, Len(pat))
             IN  /\ Len(name) >= Len(pre) + Len(suf)
                 /\ IsPrefix(pre, name)
                 /\ IsSuffix(suf, name)

-----------------------------------------------------------------------------
(* The data_files/ tree and the archives in it *)

ValidModes == {"imaging", "lrs", "mrs"}
ValidSrc == {"point", "extended"}

\* names a version directory may hold: per mode the point archive, two
\* spellings of the extended archive, and a file no pattern matches
PointName(mode) == <<"miri_", mode, "_sensitivity", ".npz">>
ExtName(mode) == <<"miri_", mode, "_sensitivity", "_extended", ".npz">>
ExtName2(mode) == <<"miri_", mode, "_sensitivity", "_extended", "_v2", ".npz">>
OtherName(mode) == <<"miri_", mode, "_sensitivity", "_extended", ".txt">>

IsExt(name) == Len(name) > 4 /\ name[4] = "_extended"

\* archives of different files hold different numbers
Offset(name) == IF ~IsExt(name) THEN 0 ELSE IF Len(name) = 5 THEN 300 ELSE 400

Shift(seq, d) == [i \in DOMAIN seq |-> seq[i] + d]

\* np.load: the named arrays of an archive.  imaging: one entry per filter;
\* lrs: [0] slitless, [1] slit; mrs: n channel entries
Archive(name, n) ==
    LET d == Offset(name)
    IN  CASE name[2] = "imaging" ->
               [file |-> name,
                wavelengths |-> <<5, 10, 15>>,
                lim_fluxes |-> Shift(<<30, 20, 10>>, d),
                sat_limits |-> Shift(<<10, 8, 6>>, d)]
          [] name[2] = "lrs" ->
               [file |-> name,
                wavelengths |-> << <<5, 6>>, <<5, 7>> >>,
                lim_fluxes |-> << Shift(<<3, 4>>, d), Shift(<<1, 2>>, d) >>,
                sat_limits |-> << Shift(<<100, 7>>, d), Shift(<<50, 9>>, d) >>]
          [] OTHER ->
               [file |-> name,
                wavelengths |-> [i \in 1..n |-> <<i>>],
                lim_fluxes |-> [i \in 1..n |-> <<20 + i + d>>],
                sat_limits |-> [i \in 1..n |-> <<40 + i + d>>]]

NoData == [file |-> <<>>, wavelengths |-> <<>>, lim_fluxes |-> <<>>, sat_limits |-> <<>>]

IsDir(dir) == dir \in DOMAIN dataDirs

Glob(dir, pat) == {name \in dataDirs[dir] : Match(pat, name)}

\* the file-name pattern of a mode and source type
Pattern(mode, src) ==
    IF src = "extended"
    THEN <<"miri_", mode, "_sensitivity", "_extended", "*", ".npz">>
    ELSE <<"miri_", mode, "_sensitivity", ".npz">>

Fail(err, ops) == [err |-> err, ops |-> ops, data |-> NoData]

\* load_data with the directory test ahead of the argument checks
load_data_dir_first(version, mode, src) ==
    IF version.none THEN Fail("AttributeError", <<>>)
    ELSE LET data_dir == Strip(version.str)
         IN  IF ~IsDir(data_dir)
             THEN Fail("Data directory not found", <<"isdir">>)
             ELSE IF mode \notin ValidModes
                  THEN Fail("Mode not recognised", <<"isdir">>)
                  ELSE IF src \notin ValidSrc
                       THEN Fail("Source type not recognised", <<"isdir">>)
                       ELSE LET f == Glob(data_dir, Pattern(mode, src))
                            IN  IF Cardinality(f) # 1
                                THEN Fail("No single file match", <<"isdir", "glob">>)
                                ELSE LET f0 == CHOOSE name \in f : TRUE
                                     IN  [err |-> "ok",
                                          ops |-> <<"isdir", "glob", "load">>,
                                          data |-> Archive(f0, mrsLen)]

\* load_data taking the first match when there are several
load_data_first_match(version, mode, src) ==
    IF mode \notin ValidModes THEN Fail("Mode not recognised", <<>>)
    ELSE IF src \notin ValidSrc THEN Fail("Source type not recognised", <<>>)
    ELSE IF version.none THEN Fail("AttributeError", <<>>)
    ELSE LET data_dir == Strip(version.str)
         IN  IF ~IsDir(data_dir)
             THEN Fail("Data directory not found", <<"isdir">>)
             ELSE LET f == Glob(data_dir, Pattern(mode, src))
                  IN  IF Cardinality(f) < 1
                      THEN Fail("No single file match", <<"isdir", "glob">>)
                      ELSE LET f0 == CHOOSE name \in f : TRUE
                           IN  [err |-> "ok",
                                ops |-> <<"isdir", "glob", "load">>,
                                data |-> Archive(f0, mrsLen)]

\* load_data: the outcome, the filesystem operations performed, the record
load_data(version, mode, src) ==
    IF mode \notin ValidModes THEN Fail("Mode not recognised", <<>>)
    ELSE IF src \notin ValidSrc THEN Fail("Source type not recognised", <<>>)
    ELSE IF version.none THEN Fail("AttributeError", <<>>)
    ELSE LET data_dir == Strip(version.str)
         IN  IF ~IsDir(data_dir)
             THEN Fail("Data directory not found", <<"isdir">>)
             ELSE LET f == Glob(data_dir, Pattern(mode, src))
                  IN  IF Cardinality(f) # 1
                      THEN Fail("No single file match", <<"isdir", "glob">>)
                      ELSE LET f0 == CHOOSE name \in f : TRUE
                           IN  [err |-> "ok",
                                ops |-> <<"isdir", "glob", "load">>,
                                data |-> Archive(f0, mrsLen)]

-----------------------------------------------------------------------------
(* pyplot: the open figures, their curves, savefig *)

\* directories plots/ETC<version>/ that exist; the routines create none
PlotDirs == { <<"14">> }

\* a value drawn as stored, in units of 1/100
Plain(y) == [i \in DOMAIN y |-> y[i] * 100]

\* frame_ratio = 0.159 / 2.7705 as <<numerator, denominator>>, in units of
\* 0.0001: the local of make_lrs_plots and the local of bright_plot
lrs_frame_ratio_typo == <<1590, 27750>>
lrs_frame_ratio == <<1590, 27705>>
bright_frame_ratio == <<1590, 27705>>

\* y / ratio, in units of 1/100
Divide(y, ratio) == [i \in DOMAIN y |-> (y[i] * 100 * ratio[2]) \div ratio[1]]

\* no figure is closed
close_none(open) == open

\* plt.close('all')
close_all(open) == <<>>

\* the run of a routine: pyplot's open figures (the last one is the current
\* figure), the files written, the outcome, the filesystem operations of its
\* load_data calls
Start(owner, open) ==
    [owner |-> owner, figs |-> open, saved |-> <<>>, err |-> "ok", ops |-> <<>>]

\* plt.subplots: a new figure, which becomes the current one
Subplots(r, mode, kind, src) ==
    IF r.err # "ok" THEN r
    ELSE [r EXCEPT !.figs = Append(@, [owner |-> r.owner, mode |-> mode,
                                        kind |-> kind, src |-> src,
                                        curves |-> <<>>])]

Curve(idx, band, label, x, y) ==
    [idx |-> idx, band |-> band, label |-> label, x |-> x, y |-> y]

\* ax.semilogy on the axes of figure k
Semilogy(r, k, curve) ==
    IF r.err # "ok" THEN r
    ELSE [r EXCEPT !.figs[k].curves = Append(@, curve)]

PlotPath(version, name) == <<"plots/ETC">> \o Format(version) \o <<"/">> \o name

\* plt.savefig: writes the current figure; fails when the directory is missing
Savefig(r, version, name) ==
    IF r.err # "ok" THEN r
    ELSE IF Format(version) \notin PlotDirs
         THEN [r EXCEPT !.err = "FileNotFoundError"]
         ELSE [r EXCEPT !.saved = Append(@, [path |-> PlotPath(version, name),
                                              fig |-> Len(r.figs),
                                              shot |-> r.figs[Len(r.figs)]])]

\* a load_data call inside a routine: its operations and its failure
Loaded(r, ld) ==
    IF r.err # "ok" THEN r
    ELSE [r EXCEPT !.ops = @ \o ld.ops, !.err = ld.err]

-----------------------------------------------------------------------------
(* make_imager_plots *)

imager_src == <<"point", "extended">>

ImagerSensName(outfile, s) == Stem(outfile) \o <<"_", s, "_", "sens", ".png">>

ImagerSatName(outfile, s) ==
    <<"imager", "_">> \o Stem(outfile) \o <<"_", s, "_", "sat", ".png">>

\* one pass of the loop over the source types
ImagerIter(r, version, save, outfile, s) ==
    IF r.err # "ok" THEN r
    ELSE
    LET ld == load_data(version, "imaging", s)
        data == ld.data
        r1 == Loaded(r, ld)
        r2 == Subplots(r1, "imaging", "sens", s)
        r3 == Semilogy(r2, Len(r2.figs),
                       Curve(-1, "", "min detectable signal",
                             data.wavelengths, Plain(data.lim_fluxes)))
        r4 == IF save THEN Savefig(r3, version, ImagerSensName(outfile, s)) ELSE r3
        r5 == Subplots(r4, "imaging", "sat", s)
        r6 == Semilogy(r5, Len(r5.figs),
                       Curve(-1, "", "saturation limits",
                             data.wavelengths, Plain(data.sat_limits)))
    IN  IF save THEN Savefig(r6, version, ImagerSatName(outfile, s)) ELSE r6

make_imager_plots(open, owner, version, save, outfile) ==
    LET r0 == Start(owner, close_all(open))
        r1 == ImagerIter(r0, version, save, outfile, imager_src[1])
    IN  ImagerIter(r1, version, save, outfile, imager_src[2])

-----------------------------------------------------------------------------
(* make_lrs_plots *)

lrs_src == <<"point">>

LrsName(outfile, s, kind) ==
    <<"lrs", "_">> \o Stem(outfile) \o <<"_", s, "_", kind, ".png">>

\* the four LRS series as make_lrs_plots and the combined routines draw them
LrsSlitSens(data) == Plain(data.lim_fluxes[2])
LrsSlitlessSens(data) == Plain(data.lim_fluxes[1])
LrsSlitSat_rescaled(data) == Divide(data.sat_limits[2], lrs_frame_ratio)
LrsSlitSat(data) == Plain(data.sat_limits[2])
LrsSlitlessSat(data, ratio) == Divide(data.sat_limits[1], ratio)

LrsIter(r, version, save, outfile, s) ==
    IF r.err # "ok" THEN r
    ELSE
    LET ld == load_data(version, "lrs", s)
        data == ld.data
        r1 == Loaded(r, ld)
        r2 == Subplots(r1, "lrs", "sens", s)
        r3 == Semilogy(r2, Len(r2.figs),
                       Curve(1, "", "slit", data.wavelengths[2], LrsSlitSens(data)))
        r4 == Semilogy(r3, Len(r2.figs),
                       Curve(0, "", "slitless", data.wavelengths[1],
                             LrsSlitlessSens(data)))
        r5 == IF save THEN Savefig(r4, version, LrsName(outfile, s, "sens")) ELSE r4
        r6 == Subplots(r5, "lrs", "sat", s)
        r7 == Semilogy(r6, Len(r6.figs),
                       Curve(1, "", "slit", data.wavelengths[2], LrsSlitSat(data)))
        r8 == Semilogy(r7, Len(r6.figs),
                       Curve(0, "", "slitless", data.wavelengths[1],
                             LrsSlitlessSat(data, lrs_frame_ratio)))
    IN  IF save THEN Savefig(r8, version, LrsName(outfile, s, "sat")) ELSE r8

make_lrs_plots(open, owner, version, save, outfile) ==
    LrsIter(Start(owner, close_all(open)), version, save, outfile, lrs_src[1])

-----------------------------------------------------------------------------
(* make_mrs_plots *)

mrs_src == <<"point", "extended">>

ishort == <<0, 3, 6, 9>>
imed_plus_two == [i \in DOMAIN ishort |-> ishort[i] + 2]
imed == [i \in DOMAIN ishort |-> ishort[i] + 1]
ilong == [i \in DOMAIN ishort |-> ishort[i] + 2]

mrslabs == <<"MRS short", "", "", "", "MRS medium", "", "", "",
             "MRS long", "", "", "">>

MrsName(outfile, s, kind) ==
    <<"mrs", "_">> \o Stem(outfile) \o <<"_", s, "_", kind, ".png">>

\* one "for sh in <indices>" loop on the axes of figure k: an index past the
\* end of the record raises IndexError and leaves the curves drawn so far
RECURSIVE MrsLoop(_, _, _, _, _, _)
MrsLoop(r, k, wavelengths, field, idxs, band) ==
    IF idxs = <<>> \/ r.err # "ok" THEN r
    ELSE LET sh == Head(idxs)
         IN  IF sh >= Len(wavelengths) \/ sh >= Len(field)
             THEN [r EXCEPT !.err = "IndexError"]
             ELSE MrsLoop(Semilogy(r, k, Curve(sh, band, mrslabs[sh + 1],
                                                wavelengths[sh + 1],
                                                Plain(field[sh + 1]))),
                          k, wavelengths, field, Tail(idxs), band)

\* the three loops, short then medium then long
MrsCurves(r, k, wavelengths, field) ==
    LET a == MrsLoop(r, k, wavelengths, field, ishort, "short")
        b == MrsLoop(a, k, wavelengths, field, imed, "medium")
    IN  MrsLoop(b, k, wavelengths, field, ilong, "long")

MrsIter(r, version, save, outfile, s) ==
    IF r.err # "ok" THEN r
    ELSE
    LET ld == load_data(version, "mrs", s)
        data == ld.data
        r1 == Loaded(r, ld)
        r2 == Subplots(r1, "mrs", "sens", s)
        r3 == MrsCurves(r2, Len(r2.figs), data.wavelengths, data.lim_fluxes)
        r4 == IF save THEN Savefig(r3, version, MrsName(outfile, s, "sens")) ELSE r3
        r5 == Subplots(r4, "mrs", "sat", s)
        r6 == MrsCurves(r5, Len(r5.figs), data.wavelengths, data.sat_limits)
    IN  IF save THEN Savefig(r6, version, MrsName(outfile, s, "sat")) ELSE r6

make_mrs_plots(open, owner, version, save, outfile) ==
    LET r0 == Start(owner, close_all(open))
        r1 == MrsIter(r0, version, save, outfile, mrs_src[1])
    IN  MrsIter(r1, version, save, outfile, mrs_src[2])

-----------------------------------------------------------------------------
(* sens_plot and bright_plot: all modes, point sources, on one figure *)

SensAllName(version) == <<"sens_all_point_v">> \o Format(version) \o <<".png">>
BrightAllName(version) == <<"bright_all_point_v">> \o Format(version) \o <<".png">>

\* sens_plot with the save inside the loop over the modes
sens_plot_save_in_loop(open, owner, version, save, outfile) ==
    LET r0 == Subplots(Start(owner, close_all(open)), "all", "sens", "point")
        k == Len(r0.figs)
        im == load_data(version, "imaging", "point")
        r1 == Semilogy(Loaded(r0, im), k,
                       Curve(-1, "", "imager", im.data.wavelengths,
                             Plain(im.data.lim_fluxes)))
        r1s == IF save THEN Savefig(r1, version, SensAllName(version)) ELSE r1
        lrs == load_data(version, "lrs", "point")
        r2 == Semilogy(Loaded(r1s, lrs), k,
                       Curve(0, "", "LRS slitless", lrs.data.wavelengths[1],
                             LrsSlitlessSens(lrs.data)))
        r3 == Semilogy(r2, k,
                       Curve(1, "", "LRS slit", lrs.data.wavelengths[2],
                             LrsSlitSens(lrs.data)))
        mrs == load_data(version, "mrs", "point")
    IN  MrsCurves(Loaded(r3, mrs), k, mrs.data.wavelengths, mrs.data.lim_fluxes)

sens_plot(open, owner, version, save, outfile) ==
    LET r0 == Subplots(Start(owner, close_all(open)), "all", "sens", "point")
        k == Len(r0.figs)
        im == load_data(version, "imaging", "point")
        r1 == Semilogy(Loaded(r0, im), k,
                       Curve(-1, "", "imager", im.data.wavelengths,
                             Plain(im.data.lim_fluxes)))
        lrs == load_data(version, "lrs", "point")
        r2 == Semilogy(Loaded(r1, lrs), k,
                       Curve(0, "", "LRS slitless", lrs.data.wavelengths[1],
                             LrsSlitlessSens(lrs.data)))
        r3 == Semilogy(r2, k,
                       Curve(1, "", "LRS slit", lrs.data.wavelengths[2],
                             LrsSlitSens(lrs.data)))
        mrs == load_data(version, "mrs", "point")
        r4 == MrsCurves(Loaded(r3, mrs), k, mrs.data.wavelengths,
                        mrs.data.lim_fluxes)
    IN  IF save THEN Savefig(r4, version, SensAllName(version)) ELSE r4

bright_plot(open, owner, version, save, outfile) ==
    LET r0 == Subplots(Start(owner, close_all(open)), "all", "sat", "point")
        k == Len(r0.figs)
        im == load_data(version, "imaging", "point")
        r1 == Semilogy(Loaded(r0, im), k,
                       Curve(-1, "", "imager", im.data.wavelengths,
                             Plain(im.data.sat_limits)))
        lrs == load_data(version, "lrs", "point")
        r2 == Semilogy(Loaded(r1, lrs), k,
                       Curve(0, "", "LRS slitless", lrs.data.wavelengths[1],
                             LrsSlitlessSat(lrs.data, bright_frame_ratio)))
        r3 == Semilogy(r2, k,
                       Curve(1, "", "LRS slit", lrs.data.wavelengths[2],
                             LrsSlitSat(lrs.data)))
        mrs == load_data(version, "mrs", "point")
        r4 == MrsCurves(Loaded(r3, mrs), k, mrs.data.wavelengths,
                        mrs.data.sat_limits)
    IN  IF save THEN Savefig(r4, version, BrightAllName(version)) ELSE r4

-----------------------------------------------------------------------------
(* The calls *)

Str(s) == [none |-> FALSE, str |-> s]
None == [none |-> TRUE, str |-> <<>>]

\* version arguments of the plot routines: '14' has data_files/ETC14/ and
\* plots/ETC14/; '14 ' is stripped to the same data directory but names the
\* missing plots/ETC14 /; '15' has no directory at all
Versions == {Str(<<"14">>), Str(<<"14", " ">>), Str(<<"15">>)}

Outfiles == { <<"out", ".", "png">>, <<"fig", ".", "v2", ".", "png">> }

\* mode and src arguments; 'imager' is the spelling of the docstring
Modes == ValidModes \cup {"imager"}
Srcs == ValidSrc \cup {"diffuse"}

AllPoint == {PointName(m) : m \in ValidModes}

\* contents of data_files/ETC14/ the plot routines are run against
Layouts ==
    { AllPoint,
      AllPoint \cup {ExtName("imaging"), ExtName2("mrs"), OtherName("lrs")},
      AllPoint \cup {ExtName("imaging"), ExtName2("imaging"), ExtName("mrs")},
      {PointName("imaging"), ExtName("imaging"), PointName("mrs")},
      {PointName("lrs"), PointName("mrs"), ExtName("mrs"), OtherName("imaging")} }

NoCall ==
    [routine |-> "none", version |-> None, save |-> FALSE, outfile |-> <<>>,
     err |-> "ok", ops |-> <<>>, saved |-> <<>>, before |-> 0]

Init ==
    /\ \E files \in Layouts : dataDirs = (<<"14">> :> files)
    /\ mrsLen \in 11..MaxMrsLen
    /\ plotFiles = {}
    /\ figs = <<>>
    /\ calls = 0
    /\ last = NoCall

\* the state a routine leaves behind: its figures stay open, its files stay
Finish(routine, version, save, outfile, r) ==
    /\ figs' = r.figs
    /\ plotFiles' = plotFiles \cup {r.saved[i].path : i \in DOMAIN r.saved}
    /\ calls' = calls + 1
    /\ last' = [routine |-> routine, version |-> version, save |-> save,
                outfile |-> outfile, err |-> r.err, ops |-> r.ops,
                saved |-> r.saved, before |-> Len(figs)]
    /\ UNCHANGED <<dataDirs, mrsLen>>

CallImager ==
    /\ calls < MaxCalls
    /\ \E version \in Versions, save \in BOOLEAN, outfile \in Outfiles :
         Finish("make_imager_plots", version, save, outfile,
                make_imager_plots(figs, calls + 1, version, save, outfile))

CallLrs ==
    /\ calls < MaxCalls
    /\ \E version \in Versions, save \in BOOLEAN, outfile \in Outfiles :
         Finish("make_lrs_plots", version, save, outfile,
                make_lrs_plots(figs, calls + 1, version, save, outfile))

CallMrs ==
    /\ calls < MaxCalls
    /\ \E version \in Versions, save \in BOOLEAN, outfile \in Outfiles :
         Finish("make_mrs_plots", version, save, outfile,
                make_mrs_plots(figs, calls + 1, version, save, outfile))

CallSens ==
    /\ calls < MaxCalls
    /\ \E version \in Versions, save \in BOOLEAN, outfile \in Outfiles :
         Finish("sens_plot", version, save, outfile,
                sens_plot(figs, calls + 1, version, save, outfile))

CallBright ==
    /\ calls < MaxCalls
    /\ \E version \in Versions, save \in BOOLEAN, outfile \in Outfiles :
         Finish("bright_plot", version, save, outfile,
                bright_plot(figs, calls + 1, version, save, outfile))

Next == CallImager \/ CallLrs \/ CallMrs \/ CallSens \/ CallBright

Spec == Init /\ [][Next]_vars

-----------------------------------------------------------------------------
(* load_data called directly, against any contents of data_files/ETC14/ *)

LoadVersions == {Str(<<"14">>), Str(<<" ", "14", " ">>), Str(<<"15">>), None}

LoadNames ==
    UNION {{PointName(m), ExtName(m), ExtName2(m)} : m \in ValidModes}

InitLoad ==
    /\ \E files \in SUBSET LoadNames :
         dataDirs = (<<"14">> :> (files \cup {OtherName(m) : m \in ValidModes}))
    /\ mrsLen = MaxMrsLen
    /\ plotFiles = {}
    /\ figs = <<>>
    /\ calls = 0
    /\ last = NoCall

\* a direct call opens no figure and writes no file
CallLoad ==
    \E version \in LoadVersions, mode \in Modes, src \in Srcs :
       LET ld == load_data(version, mode, src)
       IN  /\ last' = [routine |-> "load_data", version |-> version,
                        mode |-> mode, src |-> src, err |-> ld.err,
                        ops |-> ld.ops, data |-> ld.data]
           /\ UNCHANGED <<dataDirs, mrsLen, plotFiles, figs, calls>>

NextLoad == CallLoad

SpecLoad == InitLoad /\ [][NextLoad]_vars

-----------------------------------------------------------------------------
(* Properties of load_data, checked under SpecLoad *)

IsLoad == last.routine = "load_data"

Selected(files, mode, src) ==
    IF src = "point"
    THEN {n \in files : n = <<"miri_", mode, "_sensitivity", ".npz">>}
    ELSE {n \in files :
            /\ Len(n) >= 5
            /\ SubSeq(n, 1, 4) = <<"miri_", mode, "_sensitivity", "_extended">>
            /\ n[Len(n)] = ".npz"}

Count(ops, op) == Cardinality({i \in DOMAIN ops : ops[i] = op})

\* C2: with a valid mode, a valid src and an existing version directory, zero
\* matching files or two or more give "No single file match" and no archive
\* is read; exactly one gives that file, read once, as the returned record.
C2_UniqueMatch ==
    (/\ IsLoad
     /\ last.mode \in {"imaging", "lrs", "mrs"}
     /\ last.src \in {"point", "extended"}
     /\ ~last.version.none
     /\ Strip(last.version.str) \in DOMAIN dataDirs) =>
       LET sel == Selected(dataDirs[Strip(last.version.str)], last.mode, last.src)
       IN  /\ Cardinality(sel) # 1 =>
                /\ last.err = "No single file match"
                /\ Count(last.ops, "load") = 0
           /\ Cardinality(sel) = 1 =>
                /\ last.err = "ok"
                /\ Count(last.ops, "load") = 1
                /\ last.data.file \in sel
                /\ last.data = Archive(last.data.file, mrsLen)

\* two files match the extended pattern
C2_Witness ==
    /\ IsLoad
    /\ last.mode = "imaging" /\ last.src = "extended"
    /\ last.version = Str(<<" ", "14", " ">>)
    /\ {ExtName("imaging"), ExtName2("imaging")} \subseteq dataDirs[<<"14">>]
    /\ last.err = "No single file match"
    /\ last.ops = <<"isdir", "glob">>

-----------------------------------------------------------------------------
(* Properties of the plot routines, checked under Spec *)

\* positions of the curves of a band in a figure, in drawing order
BandAt(fig, band) == {i \in DOMAIN fig.curves : fig.curves[i].band = band}

BandIdx(fig, band) == {fig.curves[i].idx : i \in BandAt(fig, band)}

\* figures whose MRS curves have all been drawn: those of make_mrs_plots, and
\* the combined figure once the routine has got past its last loop
MrsDrawn(fig) ==
    \/ fig.mode = "mrs"
    \/ fig.mode = "all" /\ last.err \in {"ok", "FileNotFoundError"}

\* C3: with records of length at least 12, every MRS figure draws band short
\* from exactly the indices {0,3,6,9}, medium from {1,4,7,10} and long from
\* {2,5,8,11}, each index of 0..11 once, and no index of 12 or above.
C3_BandIndices ==
    mrsLen >= 12 =>
      \A k \in DOMAIN figs :
         LET fig == figs[k]
         IN  /\ \A i \in DOMAIN fig.curves : fig.curves[i].idx < 12
             /\ MrsDrawn(fig) =>
                  /\ BandIdx(fig, "short") = {0, 3, 6, 9}
                  /\ BandIdx(fig, "medium") = {1, 4, 7, 10}
                  /\ BandIdx(fig, "long") = {2, 5, 8, 11}
                  /\ \A n \in 0..11 :
                       Cardinality({i \in DOMAIN fig.curves :
                                      fig.curves[i].band # ""
                                        /\ fig.curves[i].idx = n}) = 1

\* bright_plot has returned with a record of 13 channels
C3_Witness ==
    /\ last.routine = "bright_plot" /\ last.err = "ok"
    /\ mrsLen > 12
    /\ Len(figs) = 1
    /\ BandIdx(figs[1], "long") = {2, 5, 8, 11}

\* the slitless saturation curves: of make_lrs_plots and of bright_plot
IsSlitlessSat(fig, c) ==
    /\ fig.kind = "sat"
    /\ \/ fig.mode = "lrs" /\ c.label = "slitless"
       \/ fig.mode = "all" /\ c.label = "LRS slitless"

\* what data_files/ETC14/ holds for a mode and source type
Stored(mode, src) == load_data(Str(<<"14">>), mode, src).data

\* C4, as stated: a stored slitless saturation limit of 100 is plotted as
\* 1743.7 (in units of 1/100, within one unit).
C4_Original ==
    \A k \in DOMAIN figs : \A i \in DOMAIN figs[k].curves :
       LET c == figs[k].curves[i]
       IN  (IsSlitlessSat(figs[k], c) /\ Stored("lrs", "point").sat_limits[1][1] = 100)
              => (c.y[1] >= 174370 - 1 /\ c.y[1] <= 174370 + 1)

\* C4, amended: a stored slitless saturation limit of 100 is plotted as
\* 100 * 2.7705 / 0.159 = 1742.45 (in units of 1/100, within one unit).
C4_Rescaled100 ==
    \A k \in DOMAIN figs : \A i \in DOMAIN figs[k].curves :
       LET c == figs[k].curves[i]
       IN  (IsSlitlessSat(figs[k], c) /\ Stored("lrs", "point").sat_limits[1][1] = 100)
              => (c.y[1] >= 174245 - 1 /\ c.y[1] <= 174245 + 1)

\* make_lrs_plots has drawn its saturation figure from a stored 100
C4_Witness ==
    /\ last.routine = "make_lrs_plots" /\ last.err = "ok"
    /\ Len(figs) = 2
    /\ figs[2].kind = "sat"
    /\ Len(figs[2].curves) = 2
    /\ IsSlitlessSat(figs[2], figs[2].curves[2])
    /\ Stored("lrs", "point").sat_limits[1][1] = 100

\* C5, as stated: with the imaging point-source archive in the version's data
\* directory, make_imager_plots returns without raising and has created
\* exactly two figures, one sensitivity and one saturation figure.
C5_TwoFigures ==
    (/\ last.routine = "make_imager_plots"
     /\ last.version = Str(<<"14">>)
     /\ PointName("imaging") \in dataDirs[<<"14">>]) =>
        /\ last.err = "ok"
        /\ Len(figs) = 2
        /\ {figs[k].kind : k \in DOMAIN figs} = {"sens", "sat"}

BandLabel(band) ==
    CASE band = "short" -> "MRS short"
      [] band = "medium" -> "MRS medium"
      [] band = "long" -> "MRS long"

Min(S) == CHOOSE x \in S : \A y \in S : x <= y

\* C6, as stated: in every MRS figure the first curve drawn for a band
\* carries the band's label and the other curves of the band the empty label.
C6_FirstCurveLabelled ==
    mrsLen >= 12 =>
      \A k \in DOMAIN figs :
         MrsDrawn(figs[k]) =>
           \A band \in {"short", "medium", "long"} :
              \A i \in BandAt(figs[k], band) :
                 figs[k].curves[i].label =
                    IF i = Min(BandAt(figs[k], band)) THEN BandLabel(band) ELSE ""

SavedPaths(l) == {l.saved[i].path : i \in DOMAIN l.saved}

\* C7, as stated: a routine called with save=True that aborts has written no
\* file: plots/ holds what it held before the call.
C7_Original ==
    [][(last'.err # "ok" /\ last'.save) => plotFiles' = plotFiles]_vars

\* C7, amended: a routine called with save=True that aborts has written no
\* file if it is sens_plot or bright_plot, or if it aborts before creating
\* its second figure; otherwise (make_imager_plots, make_lrs_plots,
\* make_mrs_plots aborting later) it has written one file for each figure
\* completed before the failing step, and those files remain.
C7_FilesOnAbort ==
    [][(last'.err # "ok" /\ last'.save) =>
         /\ last'.routine \in {"sens_plot", "bright_plot"} =>
              last'.saved = <<>> /\ plotFiles' = plotFiles
         /\ Len(figs') <= 1 => last'.saved = <<>> /\ plotFiles' = plotFiles
         /\ (last'.routine \notin {"sens_plot", "bright_plot"} /\ Len(figs') >= 2) =>
              /\ Len(last'.saved) \in {Len(figs') - 1, Len(figs')}
              /\ \A j \in DOMAIN last'.saved : last'.saved[j].fig = j
              /\ SavedPaths(last') # {}
              /\ SavedPaths(last') \subseteq plotFiles'
              /\ plotFiles \subseteq plotFiles'
      ]_vars

\* make_imager_plots saved both point figures, then failed to load the
\* extended archive
C7_Witness ==
    /\ last.routine = "make_imager_plots" /\ last.save
    /\ last.err = "No single file match"
    /\ Len(last.saved) = 2
    /\ SavedPaths(last) \subseteq plotFiles

\* p is the text of o before its first '.'
IsStem(p, o) ==
    /\ IsPrefix(p, o)
    /\ \A i \in DOMAIN p : p[i] # "."
    /\ Len(p) = Len(o) \/ o[Len(p) + 1] = "."

Distinct(saved) ==
    \A i, j \in DOMAIN saved : i # j => saved[i].path # saved[j].path

\* the tail <source>_<sens|sat>.png of a figure's file name
Tail3(shot) == <<"_", shot.src, "_", shot.kind, ".png">>

Prefix(routine, kind) ==
    CASE routine = "make_imager_plots" ->
           IF kind = "sat" THEN <<"imager", "_">> ELSE <<>>
      [] routine = "make_lrs_plots" -> <<"lrs", "_">>
      [] routine = "make_mrs_plots" -> <<"mrs", "_">>

C9_Original ==
    [][\A i \in DOMAIN figs : i \in DOMAIN figs' /\ figs'[i] = figs[i]]_vars

\* C9, amended: every invocation first closes all open figures, those left
\* by earlier invocations included, and then creates, draws on and saves only
\* figures it created itself.
C9_OwnFiguresOnly ==
    [][calls' # calls =>
         /\ \A i \in DOMAIN figs' : figs'[i].owner = calls'
         /\ \A j \in DOMAIN last'.saved :
              /\ last'.saved[j].shot.owner = calls'
              /\ last'.saved[j].fig \in DOMAIN figs'
      ]_vars

\* a second invocation that found figures open and left only its own
C9_Witness ==
    /\ calls = 2
    /\ last.before > 0
    /\ figs # <<>>
    /\ \A i \in DOMAIN figs : figs[i].owner = 2

\* C10: only the slitless saturation limits of make_lrs_plots and bright_plot
\* are rescaled, both by 0.159/2.7705 (the stored value times 27705/1590);
\* the slit saturation limits, both LRS sensitivity series and every imaging
\* and MRS value are plotted as stored.
C10_OnlySlitlessSatRescaled ==
    \A k \in DOMAIN figs : \A i \in DOMAIN figs[k].curves :
       LET fig == figs[k]
           c == fig.curves[i]
           field(d) == IF fig.kind = "sat" THEN d.sat_limits ELSE d.lim_fluxes
           lrs == field(Stored("lrs", "point"))
           slitless == c.label \in {"slitless", "LRS slitless"}
           slit == c.label \in {"slit", "LRS slit"}
       IN  /\ (slitless /\ fig.kind = "sat") =>
                c.y = [j \in DOMAIN lrs[1] |-> (lrs[1][j] * 100 * 27705) \div 1590]
           /\ (slitless /\ fig.kind = "sens") => c.y = Plain(lrs[1])
           /\ slit => c.y = Plain(lrs[2])
           /\ c.band # "" =>
                c.y = Plain(field(Stored("mrs", IF fig.mode = "all" THEN "point"
                                                 ELSE fig.src))[c.idx + 1])
           /\ (~slitless /\ ~slit /\ c.band = "") =>
                c.y = Plain(field(Stored("imaging", IF fig.mode = "all" THEN "point"
                                                     ELSE fig.src)))

\* bright_plot has drawn the three modes; its slitless curve is not as stored
C10_Witness ==
    /\ last.routine = "bright_plot" /\ last.err = "ok"
    /\ Len(figs) = 1
    /\ \E i \in DOMAIN figs[1].curves :
         /\ figs[1].curves[i].label = "LRS slitless"
         /\ figs[1].curves[i].y # Plain(Stored("lrs", "point").sat_limits[1])
    /\ \E i \in DOMAIN figs[1].curves :
         /\ figs[1].curves[i].label = "LRS slit"
         /\ figs[1].curves[i].y = Plain(Stored("lrs", "point").sat_limits[2])

====
